---- MODULE Spec2Model ----
(***************************************************************************)
(* VerdantView expense tracker: the IndexedDB access module (src/lib/db.ts,*)
(* first variant, the one with populateInitialData and the guarded         *)
(* deleteCategory) and the reminder-checking service worker                *)
(* (unnamed/part_010, second variant).                                     *)
(*                                                                         *)
(* One IndexedDB transaction is one step: the engine runs the requests of  *)
(* a transaction in order, commits them together or rolls all of them back,*)
(* and serialises read-write transactions whose scopes overlap.            *)
(***************************************************************************)
EXTENDS Integers, Sequences, FiniteSets, TLC

VARIABLES
    objectStoreNames,   \* object stores of VerdantViewDB ({} = database not created yet)
    expenses,           \* store 'expenses': key -> record without its id
    expKey,             \* key generator of 'expenses' (last key handed out)
    categories,         \* store 'categories': key -> name
    catKey,             \* key generator of 'categories'
    reminders,          \* store 'reminders': key -> [title, date]
    remKey,             \* key generator of 'reminders'
    settings,           \* store 'settings': key -> monthlyBudget
    sentNotifications,  \* store 'sentNotifications': set of tags (keyPath 'id')
    dbPromise,          \* db.ts module variable: "null", "opening", "populating", "resolved", "rejected"
    openCount,          \* number of indexedDB.open calls made by db.ts
    earlyCalls,         \* number of getDB calls made before the open settled
    clearPc,            \* clearAllData: "idle" or "cleared" (between its two transactions)
    clearDisturbed,     \* a write committed between the two transactions of clearAllData
    exportPc,           \* exportData: number of collections read so far (0 = not running)
    doc,                \* the document exportData is assembling / has returned
    lastOp,             \* the last db.ts operation that started or settled
    opCount,            \* number of db.ts operations started
    during,             \* while exportData runs: the stores as its first read found
                        \* them and the operations that settled since
    hook,               \* state of useExpenses: [expenses, categories, reminders,
                        \* settings, loading, error]
    fetch,              \* fetchData of useExpenses: in flight or not, and the reads
                        \* that failed in its last run
    rendered,           \* what the dashboard last computed: [now, summaries, budgetProgress]
    today,              \* current calendar day (local time)
    cycle,              \* checkReminders executions: [pc, snap, idx, now]
    cycleCount,         \* number of checkReminders executions started
    notified,           \* notifications shown: <<reminder id, milestone>> -> count
    lastCheck,          \* the last answer of hasNotificationBeenSent: for which reminder
                        \* and milestone, the answer, and whether the mark predates a restart
    overlapped,         \* two executions of checkReminders were in flight together
    lastFailure,        \* the last showNotification that rejected: for which reminder
                        \* and milestone, and how many have rejected so far
    timers,             \* setTimeout timers pending in the worker: [id, milestone, at]
    timerShown,         \* notifications shown by a timer: set of <<reminder id, milestone>>
    scan,               \* the scanner page: the categories the scan returned and
                        \* the categories of the expenses it built from them
    terminated          \* the worker was stopped: how ("no", "idle" = between cycles,
                        \* "midcycle"), and the sent-marks there were when it last was

vars == <<objectStoreNames, expenses, expKey, categories, catKey, reminders, remKey,
          settings, sentNotifications, dbPromise, openCount, earlyCalls, clearPc,
          clearDisturbed, exportPc, doc, lastOp, opCount, during, hook, fetch, rendered,
          today, cycle, cycleCount, notified, lastCheck, overlapped, terminated,
          lastFailure, timers, timerShown, scan>>

dbVars == <<objectStoreNames, expenses, expKey, categories, catKey, reminders, remKey,
            settings, sentNotifications>>
uiVars == <<dbPromise, openCount, earlyCalls, clearPc, clearDisturbed, exportPc, doc,
            lastOp, opCount, during>>
viewVars == <<hook, fetch, rendered, scan>>
timerVars == <<timers, timerShown>>
workerVars == <<today, cycle, cycleCount, notified, lastCheck, overlapped, terminated,
                lastFailure, timerVars>>

----------------------------------------------------------------------------
(* Bounds of the model *)

MaxOps == 3         \* db.ts operations started in one behaviour
MaxKey == 4         \* highest key the 'expenses' generator hands out
MaxRemKey == 2      \* highest key the 'reminders' generator hands out
MaxSeedings == 3    \* times the default categories are inserted in one behaviour
MaxCallers == 2     \* getDB calls made while the open has not settled
MaxDay == 1         \* last calendar day of a behaviour (days are 0..MaxDay)
MaxShown == 2       \* notifications counted per reminder and milestone
MaxCycles == 2      \* executions of checkReminders started in one behaviour
MaxListed == 2      \* expenses in a list handed to the dashboard

----------------------------------------------------------------------------
(* Program constants *)

defaultCategories == <<"Groceries", "Dining", "Travel", "Utilities", "Shopping", "Other">>

DefaultBudget == 1000
SettingsId == 1

UIStores == {"expenses", "categories", "reminders", "settings"}
WorkerStores == {"sentNotifications"}

----------------------------------------------------------------------------
(* Helpers over stores *)

Range(s) == {s[i] : i \in DOMAIN s}

Empty == [k \in {} |-> 0]

\* the keys of a store in ascending order, as getAll() returns its records
RECURSIVE KeysAsc(_)
KeysAsc(S) ==
    IF S = {} THEN <<>>
    ELSE LET m == CHOOSE x \in S : \A y \in S : x <= y
         IN <<m>> \o KeysAsc(S \ {m})

\* store.add of every value of vals in turn, the key generator starting after key
AddAll(store, key, vals) ==
    [k \in DOMAIN store \cup (key + 1 .. key + Len(vals)) |->
        IF k \in DOMAIN store THEN store[k] ELSE vals[k - key]]

\* store.delete(id)
DeleteKey(store, id) == [k \in DOMAIN store \ {id} |-> store[k]]

HasDuplicates(s) == \E i, j \in DOMAIN s : i # j /\ s[i] = s[j]

MaxCatKey == MaxSeedings * Len(defaultCategories) + MaxKey

----------------------------------------------------------------------------
(* Input values *)

Days == 0 .. MaxDay

ExpenseRecords ==
    { [title |-> "Rent", amount |-> 1500, date |-> 0, category |-> "Other", paymentMode |-> "Card"],
      [title |-> "Milk", amount |-> 40, date |-> 1, category |-> "Groceries", paymentMode |-> "Cash"] }

ReminderRecords == { [title |-> "Bill", amount |-> 300, date |-> d] : d \in Days }

Budgets == {0, 500}

UserNames == {"Gym", "Pets"}

\* An item of an imported or exported list: the record and the id it carries, if any.
Item(hasId, id, rest) == [hasId |-> hasId, id |-> id, rest |-> rest]

NoSettings == [hasId |-> FALSE, id |-> SettingsId, monthlyBudget |-> DefaultBudget]

\* A document {expenses?, categories?, reminders?, settings?}: keys are the
\* top-level properties that are present.
Document(keys, e, c, r, s) ==
    [keys |-> keys, expenses |-> e, categories |-> c, reminders |-> r, settings |-> s]

EmptyDocument == Document({}, <<>>, <<>>, <<>>, NoSettings)

Rent == CHOOSE x \in ExpenseRecords : x.title = "Rent"
Milk == CHOOSE x \in ExpenseRecords : x.title = "Milk"
Bill(d) == [title |-> "Bill", amount |-> 300, date |-> d]

Gym == Item(FALSE, 0, "Gym")
GymDocument == Document({"categories"}, <<>>, <<Gym>>, <<>>, NoSettings)
GymAndDefaultDocument ==
    Document({"categories"}, <<>>, <<Gym, Item(TRUE, 1, "Groceries")>>, <<>>, NoSettings)

\* the documents handed to importData from a file
FileDocuments ==
    { GymDocument,
      GymAndDefaultDocument,
      Document({"categories"}, <<>>, <<Gym, Gym>>, <<>>, NoSettings),
      Document({"categories", "settings"}, <<>>, <<Gym, Gym>>, <<>>,
               [hasId |-> FALSE, id |-> SettingsId, monthlyBudget |-> 500]),
      Document({"expenses", "settings"}, <<Item(TRUE, 1, Milk)>>, <<>>, <<>>,
               [hasId |-> TRUE, id |-> SettingsId, monthlyBudget |-> 500]),
      Document({"expenses", "settings"}, <<Item(TRUE, 1, Milk)>>, <<>>, <<>>,
               [hasId |-> FALSE, id |-> SettingsId, monthlyBudget |-> 500]),
      Document({"reminders", "settings"}, <<>>, <<>>, <<Item(TRUE, 1, Bill(MaxDay))>>,
               [hasId |-> TRUE, id |-> SettingsId + 1, monthlyBudget |-> 500]),
      EmptyDocument,
      Document(UIStores, <<Item(FALSE, 0, Rent), Item(TRUE, 1, Milk)>>, <<Gym>>,
               <<Item(FALSE, 0, Bill(0))>>,
               [hasId |-> TRUE, id |-> SettingsId, monthlyBudget |-> 0]) }

Op(name, status, arg) == [op |-> name, status |-> status, arg |-> arg]

----------------------------------------------------------------------------
(* db.ts: opening the database *)

\* onupgradeneeded of db.ts: every store of the UI that is missing is created
UpgradeUI(names) == names \cup UIStores

\* getDB without its test of dbPromise: every call opens the database
AlwaysUnset(p) == TRUE

\* the test `!dbPromise` of getDB
DbPromiseUnset(p) == p = "null"

\* the test `count === 0` of populateInitialData
CountIsZero(store) == DOMAIN store = {}

PopulatedCategories(cats, key) ==
    IF CountIsZero(cats) THEN AddAll(cats, key, defaultCategories) ELSE cats

PopulatedCatKey(cats, key) ==
    IF CountIsZero(cats) THEN key + Len(defaultCategories) ELSE key

PopulatedSettings(sett) ==
    IF CountIsZero(sett) THEN (SettingsId :> DefaultBudget) ELSE sett

\* db.transaction(names) throws NotFoundError when a store of its scope is missing
ScopeExists(names) == names \subseteq objectStoreNames

\* A db.ts operation calls getDB while the open has not settled.
getDB ==
    /\ dbPromise \in {"null", "opening", "populating"}
    /\ earlyCalls < MaxCallers
    /\ earlyCalls' = earlyCalls + 1
    /\ IF DbPromiseUnset(dbPromise)
       THEN dbPromise' = "opening" /\ openCount' = openCount + 1
       ELSE UNCHANGED <<dbPromise, openCount>>
    /\ UNCHANGED <<dbVars, clearPc, clearDisturbed, exportPc, doc, lastOp, opCount, during,
                   workerVars, viewVars>>

\* request.onupgradeneeded (only when the database is new) and request.onsuccess
OpenOnSuccess ==
    /\ dbPromise = "opening"
    /\ objectStoreNames' = IF objectStoreNames = {} THEN UpgradeUI(objectStoreNames)
                           ELSE objectStoreNames
    /\ dbPromise' = "populating"
    /\ UNCHANGED <<expenses, expKey, categories, catKey, reminders, remKey, settings,
                   sentNotifications, openCount, earlyCalls, clearPc, clearDisturbed,
                   exportPc, doc, lastOp, opCount, during, workerVars, viewVars>>

\* populateInitialData(db) run by onsuccess, then resolve(db) or reject
populateInitialData ==
    /\ dbPromise = "populating"
    /\ IF ScopeExists({"categories", "settings"})
       THEN /\ categories' = PopulatedCategories(categories, catKey)
            /\ catKey' = PopulatedCatKey(categories, catKey)
            /\ settings' = PopulatedSettings(settings)
            /\ dbPromise' = "resolved"
       ELSE /\ dbPromise' = "rejected"
            /\ UNCHANGED <<categories, catKey, settings>>
    /\ UNCHANGED <<objectStoreNames, expenses, expKey, reminders, remKey, sentNotifications,
                   openCount, earlyCalls, clearPc, clearDisturbed, exportPc, doc, lastOp,
                   opCount, during, workerVars, viewVars>>

----------------------------------------------------------------------------
(* db.ts: single-store operations (performDBOperation) *)

Ready == dbPromise = "resolved" /\ opCount < MaxOps

\* the contents of the four stores of the UI at one moment
Snapshot(e, c, r, s) == [expenses |-> e, categories |-> c, reminders |-> r, settings |-> s]

NoDuring == [base |-> Snapshot(Empty, Empty, Empty, Empty), ops |-> <<>>]

\* the operation called name settles; exportData may be between two of its reads
Noted(name) == IF exportPc = 0 THEN during ELSE [during EXCEPT !.ops = Append(@, name)]

\* what every operation leaves alone besides the stores it names
Settle(op) ==
    /\ lastOp' = op
    /\ opCount' = opCount + 1
    /\ clearDisturbed' = (clearDisturbed \/ clearPc = "cleared")
    /\ during' = Noted(op.op)
    /\ UNCHANGED <<objectStoreNames, sentNotifications, dbPromise, openCount, earlyCalls,
                   clearPc, exportPc, doc, workerVars, viewVars>>

addExpense ==
    \E e \in ExpenseRecords :
        /\ Ready
        /\ expKey < MaxKey
        /\ expenses' = AddAll(expenses, expKey, <<e>>)
        /\ expKey' = expKey + 1
        /\ Settle(Op("addExpense", "ok", expKey + 1))
        /\ UNCHANGED <<categories, catKey, reminders, remKey, settings>>

deleteExpense ==
    \E id \in DOMAIN expenses :
        /\ Ready
        /\ expenses' = DeleteKey(expenses, id)
        /\ Settle(Op("deleteExpense", "ok", id))
        /\ UNCHANGED <<expKey, categories, catKey, reminders, remKey, settings>>

\* a store without the unique index: no name is ever refused
NeverTaken(cats, name) == FALSE

\* the unique index 'name' of the categories store: add fails with ConstraintError
NameTaken(cats, name) == name \in Range(cats)

addCategory ==
    \E name \in UserNames \cup {"Other"} :
        /\ Ready
        /\ catKey < MaxCatKey
        /\ IF NameTaken(categories, name)
           THEN /\ Settle(Op("addCategory", "rejected", name))
                /\ UNCHANGED <<categories, catKey>>
           ELSE /\ categories' = AddAll(categories, catKey, <<name>>)
                /\ catKey' = catKey + 1
                /\ Settle(Op("addCategory", "ok", name))
        /\ UNCHANGED <<expenses, expKey, reminders, remKey, settings>>

\* deleteCategory without the guard (as performDBOperation(store.delete) does)
NeverProtected(cats, id) == FALSE

\* the guard without its test of the name: every category found is refused
EveryFoundProtected(cats, id) == id \in DOMAIN cats

\* the test `categoryToDelete && defaultCategories.includes(categoryToDelete.name)`
IsProtected(cats, id) == id \in DOMAIN cats /\ cats[id] \in Range(defaultCategories)

\* what store.get(id) found: the id asked for and the name read ("" for undefined)
Found(cats, id) == [id |-> id, name |-> IF id \in DOMAIN cats THEN cats[id] ELSE ""]

deleteCategory ==
    \E id \in DOMAIN categories \cup {catKey + 1} :
        /\ Ready
        /\ IF IsProtected(categories, id)
           THEN /\ Settle(Op("deleteCategory", "rejected", Found(categories, id)))
                /\ UNCHANGED categories
           ELSE /\ categories' = DeleteKey(categories, id)
                /\ Settle(Op("deleteCategory", "ok", Found(categories, id)))
        /\ UNCHANGED <<expenses, expKey, catKey, reminders, remKey, settings>>

addReminder ==
    \E r \in ReminderRecords :
        /\ Ready
        /\ remKey < MaxRemKey
        /\ reminders' = AddAll(reminders, remKey, <<r>>)
        /\ remKey' = remKey + 1
        /\ Settle(Op("addReminder", "ok", remKey + 1))
        /\ UNCHANGED <<expenses, expKey, categories, catKey, settings>>

deleteReminder ==
    \E id \in DOMAIN reminders :
        /\ Ready
        /\ reminders' = DeleteKey(reminders, id)
        /\ Settle(Op("deleteReminder", "ok", id))
        /\ UNCHANGED <<expenses, expKey, categories, catKey, remKey, settings>>

\* store.put({ ...settings, id: 1 })
updateSettings ==
    \E b \in Budgets :
        /\ Ready
        /\ settings' = (SettingsId :> b) @@ settings
        /\ Settle(Op("updateSettings", "ok", b))
        /\ UNCHANGED <<expenses, expKey, categories, catKey, reminders, remKey>>

----------------------------------------------------------------------------
(* db.ts: exportData, four reads in four transactions *)

\* getAll(): the records in key order, each with its id
ExportItems(store) ==
    LET keys == KeysAsc(DOMAIN store)
    IN [i \in 1 .. Len(keys) |-> Item(TRUE, keys[i], store[keys[i]])]

\* store.get(1) of getSettings; undefined is dropped from the document
ExportSettings(d, sett) ==
    IF SettingsId \in DOMAIN sett
    THEN [d EXCEPT !.keys = @ \cup {"settings"},
                   !.settings = [hasId |-> TRUE, id |-> SettingsId,
                                 monthlyBudget |-> sett[SettingsId]]]
    ELSE d

\* the document exportData returns when all its reads find the stores as in snap
Exported(snap) ==
    ExportSettings(Document({"expenses", "categories", "reminders"},
                            ExportItems(snap.expenses), ExportItems(snap.categories),
                            ExportItems(snap.reminders), NoSettings),
                   snap.settings)

\* `const expenses = await getExpenses()`
exportData ==
    /\ Ready
    /\ exportPc = 0
    /\ doc' = Document({"expenses"}, ExportItems(expenses), <<>>, <<>>, NoSettings)
    /\ exportPc' = 1
    /\ lastOp' = Op("exportData", "pending", 0)
    /\ opCount' = opCount + 1
    /\ during' = [base |-> Snapshot(expenses, categories, reminders, settings), ops |-> <<>>]
    /\ UNCHANGED <<dbVars, dbPromise, openCount, earlyCalls, clearPc, clearDisturbed, workerVars, viewVars>>

\* getCategories, getReminders, getSettings in turn, then the return
exportRead ==
    /\ exportPc \in 1 .. 3
    /\ doc' = CASE exportPc = 1 ->
                     [doc EXCEPT !.keys = @ \cup {"categories"},
                                 !.categories = ExportItems(categories)]
               [] exportPc = 2 ->
                     [doc EXCEPT !.keys = @ \cup {"reminders"},
                                 !.reminders = ExportItems(reminders)]
               [] OTHER -> ExportSettings(doc, settings)
    /\ exportPc' = IF exportPc = 3 THEN 0 ELSE exportPc + 1
    /\ lastOp' = IF exportPc = 3 THEN Op("exportData", "ok", 0) ELSE lastOp
    /\ during' = IF exportPc = 3 THEN NoDuring ELSE during
    /\ UNCHANGED <<dbVars, dbPromise, openCount, earlyCalls, clearPc, clearDisturbed,
                   opCount, workerVars, viewVars>>

----------------------------------------------------------------------------
(* db.ts: importData, one transaction over the four stores *)

\* importData without the tests of presence: every store is cleared and refilled
EveryKeyPresent(data, k) == TRUE

\* the tests `if (data.expenses)`, `if (data.categories)`, ...
HasKey(data, k) == k \in data.keys

\* `const { id, ...rest } = e`
Strip(item) == item.rest

Stripped(items) == [i \in DOMAIN items |-> Strip(items[i])]

\* importData without the filter: every supplied category is added
KeepEvery(name) == TRUE

\* the test `!defaultCatSet.has(c.name)`
NotDefault(name) == name \notin Range(defaultCategories)

\* the names added to the cleared categories store, in the order of the requests
ImportedNames(data) == defaultCategories \o SelectSeq(Stripped(data.categories), NotDefault)

\* the adds without the clear() before them
AddedWithoutClear(data, k, store, key, vals) ==
    IF k \in data.keys THEN AddAll(store, key, vals) ELSE store

\* clear() that also resets the key generator: the adds get the keys from 1 on
ReplacedFromOne(data, k, store, key, vals) ==
    IF k \in data.keys THEN AddAll(Empty, 0, vals) ELSE store

\* clear() then add(rest) for every supplied record
Replaced(data, k, store, key, vals) ==
    IF HasKey(data, k) THEN AddAll(Empty, key, vals) ELSE store

ReplacedKey(data, k, key, vals) ==
    IF HasKey(data, k) THEN key + Len(vals) ELSE key

\* store.put(data.settings): the settings store is not cleared
PutSettings(data, sett) ==
    IF HasKey(data, "settings")
    THEN [k \in DOMAIN sett \cup {data.settings.id} |->
             IF k = data.settings.id THEN data.settings.monthlyBudget ELSE sett[k]]
    ELSE sett

\* put() throws DataError at once when the record has no key at keyPath 'id';
\* the throw rejects that request's promise and leaves the transaction running
PutThrows(data) == HasKey(data, "settings") /\ ~data.settings.hasId

\* the adds as they would go without the unique index: only the engine fails
OnlyEngineFails(data, fail) == fail

\* a request of the transaction fails: the unique index of categories
\* (ConstraintError) or the engine (fail); the transaction aborts
RequestFails(data, fail) ==
    fail \/ (HasKey(data, "categories") /\ HasDuplicates(ImportedNames(data)))

\* the requests the transaction holds
Requested(data) == IF PutThrows(data) THEN data.keys \ {"settings"} ELSE data.keys

ImportStatus(data, fail) ==
    IF RequestFails(data, fail) \/ PutThrows(data) THEN "rejected" ELSE "ok"

\* the transaction commits unless one of its requests failed
Commits(data, fail) == ~RequestFails(data, fail)

ImportApply(data, fail, src) ==
    /\ Ready
    /\ fail => Requested(data) # {}
    /\ HasKey(data, "expenses") => expKey + Len(data.expenses) <= MaxKey
    /\ HasKey(data, "reminders") => remKey + Len(data.reminders) <= MaxRemKey
    /\ HasKey(data, "categories") => catKey + Len(ImportedNames(data)) <= MaxCatKey
    /\ IF Commits(data, fail)
       THEN /\ expenses' = Replaced(data, "expenses", expenses, expKey, Stripped(data.expenses))
            /\ expKey' = ReplacedKey(data, "expenses", expKey, data.expenses)
            /\ categories' = Replaced(data, "categories", categories, catKey, ImportedNames(data))
            /\ catKey' = ReplacedKey(data, "categories", catKey, ImportedNames(data))
            /\ reminders' = Replaced(data, "reminders", reminders, remKey, Stripped(data.reminders))
            /\ remKey' = ReplacedKey(data, "reminders", remKey, data.reminders)
            /\ settings' = IF PutThrows(data) THEN settings ELSE PutSettings(data, settings)
       ELSE UNCHANGED <<expenses, expKey, categories, catKey, reminders, remKey, settings>>
    /\ Settle(Op("importData", ImportStatus(data, fail), [data |-> data, fail |-> fail, src |-> src]))

\* importData of a document read from a file
importData ==
    \E data \in FileDocuments, fail \in BOOLEAN : ImportApply(data, fail, "file")

\* importData of the document exportData returned
importExported ==
    /\ exportPc = 0
    /\ "expenses" \in doc.keys
    /\ \E fail \in BOOLEAN : ImportApply(doc, fail, "export")

----------------------------------------------------------------------------
(* db.ts: clearAllData, a clearing transaction and then populateInitialData *)

\* the list without 'settings'
ClearExceptSettings == UIStores \ {"settings"}

\* `const storeNames = ['expenses', 'categories', 'reminders', 'settings']`
ClearStoreNames == UIStores

Cleared(name, store) == IF name \in ClearStoreNames THEN Empty ELSE store

clearAllData ==
    \E fail \in BOOLEAN :
        /\ Ready
        /\ clearPc = "idle"
        /\ catKey + Len(defaultCategories) <= MaxCatKey
        /\ IF fail
           THEN /\ UNCHANGED <<expenses, categories, reminders, settings, clearPc,
                               clearDisturbed>>
                /\ lastOp' = Op("clearAllData", "rejected", 0)
           ELSE /\ expenses' = Cleared("expenses", expenses)
                /\ categories' = Cleared("categories", categories)
                /\ reminders' = Cleared("reminders", reminders)
                /\ settings' = Cleared("settings", settings)
                /\ clearPc' = "cleared"
                /\ clearDisturbed' = FALSE
                /\ lastOp' = Op("clearAllData", "pending", 0)
        /\ opCount' = opCount + 1
        /\ during' = Noted("clearAllData")
        /\ UNCHANGED <<objectStoreNames, expKey, catKey, remKey, sentNotifications, dbPromise,
                       openCount, earlyCalls, exportPc, doc, workerVars, viewVars>>

\* tx.oncomplete: await populateInitialData(db), then resolve(); when the
\* transaction of populateInitialData fails, nothing is added and the catch rejects
clearRepopulate ==
    \E fail \in BOOLEAN :
        /\ clearPc = "cleared"
        /\ IF fail
           THEN /\ UNCHANGED <<categories, catKey, settings>>
                /\ lastOp' = Op("clearAllData", "rejected", 0)
           ELSE /\ categories' = PopulatedCategories(categories, catKey)
                /\ catKey' = PopulatedCatKey(categories, catKey)
                /\ settings' = PopulatedSettings(settings)
                /\ lastOp' = Op("clearAllData", "ok", 0)
        /\ clearPc' = "idle"
        /\ during' = Noted("clearAllData")
        /\ UNCHANGED <<objectStoreNames, expenses, expKey, reminders, remKey, sentNotifications,
                       dbPromise, openCount, earlyCalls, clearDisturbed, exportPc, doc, opCount,
                       workerVars, viewVars>>

----------------------------------------------------------------------------
(* useExpenses (unnamed/part_008, the hook the dashboard app/page.tsx uses) *)

\* the settings the hook holds: null or undefined, or the record read
NoHookSettings == [present |-> FALSE, monthlyBudget |-> 0]

\* getSettings(): store.get(1), undefined when there is no such record
HookSettings(sett) ==
    IF SettingsId \in DOMAIN sett
    THEN [present |-> TRUE, monthlyBudget |-> sett[SettingsId]]
    ELSE NoHookSettings

\* the useState initial values
InitialHook ==
    [expenses |-> <<>>, categories |-> <<>>, reminders |-> <<>>,
     settings |-> NoHookSettings, loading |-> TRUE, error |-> "null"]

\* the four reads of Promise.all
FetchNames == {"expenses", "categories", "reminders", "settings"}

\* fetchedExpenses.sort((a, b) => date of b - date of a): stable, latest first
RECURSIVE SortedByDateDesc(_)
SortedByDateDesc(items) ==
    IF items = <<>> THEN <<>>
    ELSE LET i == CHOOSE i \in DOMAIN items :
                      /\ \A j \in DOMAIN items : items[j].rest.date <= items[i].rest.date
                      /\ \A j \in 1 .. i - 1 : items[j].rest.date < items[i].rest.date
         IN <<items[i]>> \o
            SortedByDateDesc([k \in 1 .. Len(items) - 1 |->
                                 IF k < i THEN items[k] ELSE items[k + 1]])

\* every setter called for the reads that succeeded, whatever the others did
RetainedOwn(failed, name) == name \in failed

\* the setters run after `await Promise.all`, which rejects when one read fails
Retained(failed, name) == failed # {}

\* fetchData up to its await: setLoading(true); setError(null); the four reads
\* start, and the first of them to call getDB opens the database if nothing has
fetchData ==
    /\ fetch.pc = "idle"
    /\ hook' = [hook EXCEPT !.loading = TRUE, !.error = "null"]
    /\ fetch' = [pc |-> "running", failed |-> {}]
    /\ IF DbPromiseUnset(dbPromise)
       THEN dbPromise' = "opening" /\ openCount' = openCount + 1
       ELSE UNCHANGED <<dbPromise, openCount>>
    /\ UNCHANGED <<dbVars, earlyCalls, clearPc, clearDisturbed, exportPc, doc, lastOp,
                   opCount, during, workerVars, rendered, scan>>

\* the reads have settled: the setters or the catch, then the finally
fetchSettle ==
    \E failed \in SUBSET FetchNames :
        /\ fetch.pc = "running"
        /\ dbPromise \in {"resolved", "rejected"}
        /\ dbPromise = "rejected" => failed = FetchNames
        /\ hook' = [expenses |-> IF Retained(failed, "expenses") THEN hook.expenses
                                 ELSE SortedByDateDesc(ExportItems(expenses)),
                    categories |-> IF Retained(failed, "categories") THEN hook.categories
                                   ELSE ExportItems(categories),
                    reminders |-> IF Retained(failed, "reminders") THEN hook.reminders
                                  ELSE ExportItems(reminders),
                    settings |-> IF Retained(failed, "settings") THEN hook.settings
                                 ELSE HookSettings(settings),
                    loading |-> FALSE,
                    error |-> IF failed # {} THEN "message" ELSE hook.error]
        /\ fetch' = [pc |-> "idle", failed |-> failed]
        /\ UNCHANGED <<dbVars, uiVars, workerVars, rendered, scan>>

----------------------------------------------------------------------------
(* The dashboard: summaries (part_008) and budgetProgress (app/page.tsx).   *)
(* A date is the number of its local calendar day; a week is seven days    *)
(* from a Sunday, and the calendar is cut into months of thirty days and   *)
(* years of twelve such months.                                            *)

startOfWeek(d) == d - (d % 7)
endOfWeek(d) == startOfWeek(d) + 6
startOfMonth(d) == d - (d % 30)
endOfMonth(d) == startOfMonth(d) + 29
startOfYear(d) == d - (d % 360)
endOfYear(d) == startOfYear(d) + 359

isWithinInterval(d, start, end) == start <= d /\ d <= end
isToday(d, now) == d = now

\* the month window of the older dashboard: from the first of the month to today
WithinMonthToDate(d, now) == isWithinInterval(d, startOfMonth(now), now)

\* `isWithinInterval(new Date(e.date), {start: startOfMonth(now), end: endOfMonth(now)})`
WithinMonth(d, now) == isWithinInterval(d, startOfMonth(now), endOfMonth(now))

\* `.reduce((sum, e) => sum + e.amount, 0)`
RECURSIVE Total(_)
Total(items) ==
    IF items = <<>> THEN 0 ELSE Head(items).rest.amount + Total(Tail(items))

summaries(exps, now) ==
    [today |-> Total(SelectSeq(exps, LAMBDA e : isToday(e.rest.date, now))),
     week |-> Total(SelectSeq(exps, LAMBDA e :
                  isWithinInterval(e.rest.date, startOfWeek(now), endOfWeek(now)))),
     month |-> Total(SelectSeq(exps, LAMBDA e : WithinMonth(e.rest.date, now))),
     year |-> Total(SelectSeq(exps, LAMBDA e :
                  isWithinInterval(e.rest.date, startOfYear(now), endOfYear(now))))]

\* a number that need not be whole: num / den
Rat(n, d) == [num |-> n, den |-> d]
RatLeq(a, b) == a.num * b.den <= b.num * a.den

\* the progress returned as it is
Uncapped(progress) == progress

\* `Math.min(progress, 100)`
Capped(progress) == IF RatLeq(progress, Rat(100, 1)) THEN progress ELSE Rat(100, 1)

\* `if (!settings?.monthlyBudget || settings.monthlyBudget === 0) return 0`, then
\* `(summaries.month / settings.monthlyBudget) * 100` under the cap
budgetProgress(month, sett) ==
    IF ~sett.present \/ sett.monthlyBudget = 0 THEN Rat(0, 1)
    ELSE Capped(Rat(month * 100, sett.monthlyBudget))

NoRender ==
    [now |-> 0, summaries |-> [today |-> 0, week |-> 0, month |-> 0, year |-> 0],
     budgetProgress |-> Rat(0, 1)]

\* an expense of amount a dated day d
Spent(d, a) ==
    [title |-> "Spent", amount |-> a, date |-> d, category |-> "Other", paymentMode |-> "Cash"]

\* expenses on the day 32, in its week (28..34), in its month (30..59), in its
\* year (0..359), around the turn of the year (week 357..363), and beyond
SummaryRecords ==
    { Spent(32, 1500), Spent(33, 40), Spent(29, 7), Spent(45, 500),
      Spent(100, 9), Spent(359, 11), Spent(361, 13), Spent(400, 17) }

SummaryNows == {32, 45, 361}

\* the lists of at most MaxListed such expenses, each with the id of its place
SummaryLists ==
    UNION { { [i \in 1 .. n |-> Item(TRUE, i, f[i])] : f \in [1 .. n -> SummaryRecords] } :
            n \in 0 .. MaxListed }

SummarySettings ==
    { NoHookSettings } \cup { [present |-> TRUE, monthlyBudget |-> b] : b \in {0, 1000, 3000} }

\* the dashboard renders: useMemo computes the summaries of the expenses the
\* hook holds at the present day, and the progress against the budget
render ==
    \E now \in SummaryNows :
        /\ ~hook.loading
        /\ rendered' = [now |-> now,
                        summaries |-> summaries(hook.expenses, now),
                        budgetProgress |->
                            budgetProgress(summaries(hook.expenses, now).month, hook.settings)]
        /\ rendered' # rendered
        /\ UNCHANGED <<dbVars, uiVars, workerVars, hook, fetch, scan>>

----------------------------------------------------------------------------
(* Specification of the store: db.ts alone, on a database that does not exist yet *)

Cycles == {1, 2}
Milestones == {"1day", "today"}
IdleCycle == [pc |-> "idle", snap |-> <<>>, idx |-> 0, now |-> 0]
NoCheck == [id |-> 0, milestone |-> "none", sent |-> FALSE, restarted |-> FALSE]
NoFailure == [id |-> 0, milestone |-> "none", n |-> 0]

\* the scanner page before a scan
NoScan == [scanned |-> <<>>, category |-> <<>>]

InitDatabase ==
    /\ expenses = Empty /\ expKey = 0
    /\ categories = Empty /\ catKey = 0
    /\ reminders = Empty /\ remKey = 0
    /\ settings = Empty
    /\ sentNotifications = {}

InitUI ==
    /\ dbPromise = "null"
    /\ openCount = 0
    /\ earlyCalls = 0
    /\ clearPc = "idle"
    /\ clearDisturbed = FALSE
    /\ exportPc = 0
    /\ doc = EmptyDocument
    /\ lastOp = Op("none", "ok", 0)
    /\ opCount = 0
    /\ during = NoDuring

InitView ==
    /\ hook = InitialHook
    /\ fetch = [pc |-> "idle", failed |-> {}]
    /\ rendered = NoRender
    /\ scan = NoScan

InitWorker ==
    /\ today = 0
    /\ cycle = [c \in Cycles |-> IdleCycle]
    /\ cycleCount = 0
    /\ notified = [t \in (1 .. MaxRemKey) \X Milestones |-> 0]
    /\ lastCheck = NoCheck
    /\ overlapped = FALSE
    /\ terminated = [how |-> "no", marks |-> {}]
    /\ lastFailure = NoFailure
    /\ timers = {}
    /\ timerShown = {}

InitStore ==
    /\ objectStoreNames = {}
    /\ InitDatabase /\ InitUI /\ InitView /\ InitWorker

NextStore ==
    \/ getDB
    \/ OpenOnSuccess
    \/ populateInitialData
    \/ addExpense
    \/ deleteExpense
    \/ addCategory
    \/ deleteCategory
    \/ addReminder
    \/ deleteReminder
    \/ updateSettings
    \/ exportData
    \/ exportRead
    \/ importData
    \/ importExported
    \/ clearAllData
    \/ clearRepopulate

SpecStore == InitStore /\ [][NextStore]_vars

----------------------------------------------------------------------------
(* Claims about the store *)

\* the names of the categories in key order, as getCategories lists them
NamesInKeyOrder(cats) == Stripped(ExportItems(cats))

DefaultNames == Range(defaultCategories)

\* this step settles or starts the db.ts operation called name
Step(name) == opCount' = opCount + 1 /\ lastOp'.op = name

\* C3: however many operations call getDB before the first open has settled,
\* db.ts opens the database once, and when the open has resolved the
\* categories are exactly the default names, each once, and settings holds
\* exactly the default record.
C3_OneOpenSeedsOnce ==
    dbPromise = "resolved" =>
        /\ openCount = 1
        /\ opCount = 0 =>
              /\ NamesInKeyOrder(categories) = defaultCategories
              /\ Cardinality(DOMAIN categories) = Len(defaultCategories)
              /\ DOMAIN settings = {SettingsId}
              /\ settings[SettingsId] = DefaultBudget

C3_Witness ==
    dbPromise = "resolved" /\ earlyCalls >= 2 /\ opCount = 0

\* C4: deleteCategory(id) of a category whose name is a default name is
\* rejected and leaves the categories store as it was.
C4_ProtectedDeleteRejected ==
    [][ (/\ Step("deleteCategory")
         /\ lastOp'.arg.id \in DOMAIN categories
         /\ categories[lastOp'.arg.id] \in DefaultNames)
        => (lastOp'.status = "rejected" /\ categories' = categories) ]_vars

C4_Witness ==
    /\ lastOp.op = "deleteCategory"
    /\ lastOp.status = "rejected"
    /\ lastOp.arg.name \in DefaultNames
    /\ lastOp.arg.id \in DOMAIN categories

\* C5: deleteCategory(id) of an existing category whose name is not a default
\* name succeeds and removes that record alone: every other category and
\* every other store is unchanged.
C5_UserDeleteRemovesOne ==
    [][ (/\ Step("deleteCategory")
         /\ lastOp'.arg.id \in DOMAIN categories
         /\ categories[lastOp'.arg.id] \notin DefaultNames)
        => (/\ lastOp'.status = "ok"
            /\ DOMAIN categories' = DOMAIN categories \ {lastOp'.arg.id}
            /\ \A k \in DOMAIN categories' : categories'[k] = categories[k]
            /\ UNCHANGED <<expenses, reminders, settings, sentNotifications>>) ]_vars

C5_Witness ==
    /\ lastOp.op = "deleteCategory"
    /\ lastOp.status = "ok"
    /\ lastOp.arg.name \in UserNames
    /\ lastOp.arg.id \notin DOMAIN categories
    /\ Cardinality(DOMAIN categories) = Len(defaultCategories)

\* C6: once clearAllData has resolved, with no other write between its two
\* transactions, the categories are exactly the default names, settings is
\* the one record {id: 1, monthlyBudget: 1000}, and expenses and reminders
\* are empty.
C6_ClearRestoresDefaults ==
    (lastOp.op = "clearAllData" /\ lastOp.status = "ok" /\ ~clearDisturbed) =>
        /\ NamesInKeyOrder(categories) = defaultCategories
        /\ DOMAIN settings = {SettingsId}
        /\ settings[SettingsId] = DefaultBudget
        /\ DOMAIN expenses = {}
        /\ DOMAIN reminders = {}

C6_Witness ==
    /\ lastOp.op = "clearAllData"
    /\ lastOp.status = "ok"
    /\ ~clearDisturbed
    /\ expKey > 0
    /\ remKey > 0

\* C7: importData of {categories: [Gym]}, or of a list that also holds a
\* default name, commits and leaves the default names, each once, followed
\* by Gym; so does the same import made again.
C7_ImportGymKeepsDefaultsOnce ==
    (/\ lastOp.op = "importData"
     /\ lastOp.arg.src = "file"
     /\ lastOp.arg.data \in {GymDocument, GymAndDefaultDocument}
     /\ ~lastOp.arg.fail)
    => (/\ lastOp.status = "ok"
        /\ NamesInKeyOrder(categories) = defaultCategories \o <<"Gym">>)

C7_Witness ==
    /\ lastOp.op = "importData"
    /\ lastOp.status = "ok"
    /\ lastOp.arg.data = GymAndDefaultDocument
    /\ catKey = 3 * Len(defaultCategories) + 2

\* C8: an importData that is rejected has changed none of the four stores.
C8_RejectedImportChangesNothing ==
    [][ (Step("importData") /\ lastOp'.status = "rejected")
        => UNCHANGED <<expenses, categories, reminders, settings>> ]_vars

\* C9: importData leaves every store whose key the document lacks as it was,
\* and when it resolves every store whose key is present holds the supplied
\* records under new keys.
C9_AbsentKeysUntouched ==
    [][ Step("importData") =>
        LET data == lastOp'.arg.data IN
        /\ "expenses" \notin data.keys => expenses' = expenses
        /\ "categories" \notin data.keys => categories' = categories
        /\ "reminders" \notin data.keys => reminders' = reminders
        /\ "settings" \notin data.keys => settings' = settings
        /\ (lastOp'.status = "ok" /\ "expenses" \in data.keys) =>
              /\ DOMAIN expenses' \cap DOMAIN expenses = {}
              /\ Cardinality(DOMAIN expenses') = Len(data.expenses)
        /\ (lastOp'.status = "ok" /\ "reminders" \in data.keys) =>
              /\ DOMAIN reminders' \cap DOMAIN reminders = {}
              /\ Cardinality(DOMAIN reminders') = Len(data.reminders) ]_vars

C9_Witness ==
    /\ lastOp.op = "importData"
    /\ lastOp.status = "ok"
    /\ lastOp.arg.data.keys = {"expenses", "settings"}
    /\ DOMAIN reminders # {}
    /\ Range(categories) \cap UserNames # {}

\* C10: importData of the document exportData returned for the present
\* contents of the store leaves the same expenses and reminders, compared
\* in key order on every field but the id, under keys none of which is an
\* id of the document.
C10_ExportImportRoundTrip ==
    [][ (/\ Step("importData")
         /\ lastOp'.arg.src = "export"
         /\ lastOp'.status = "ok"
         /\ doc.expenses = ExportItems(expenses)
         /\ doc.reminders = ExportItems(reminders))
        => (/\ Stripped(ExportItems(expenses')) = Stripped(ExportItems(expenses))
            /\ Stripped(ExportItems(reminders')) = Stripped(ExportItems(reminders))
            /\ Cardinality(DOMAIN expenses') = Cardinality(DOMAIN expenses)
            /\ Cardinality(DOMAIN reminders') = Cardinality(DOMAIN reminders)
            /\ DOMAIN expenses' \cap {doc.expenses[i].id : i \in DOMAIN doc.expenses} = {}
            /\ DOMAIN reminders' \cap {doc.reminders[i].id : i \in DOMAIN doc.reminders} = {}) ]_vars

C10_Witness ==
    /\ lastOp.op = "importData"
    /\ lastOp.arg.src = "export"
    /\ lastOp.status = "ok"
    /\ Cardinality(DOMAIN expenses) = 2
    /\ DOMAIN reminders # {}
    /\ doc.expenses # ExportItems(expenses)
    /\ Stripped(doc.expenses) = Stripped(ExportItems(expenses))

\* C11: once the database is open and no clearAllData is under way, the
\* settings store holds exactly one record, and its id is 1.
C11_OneSettingsRecord ==
    (dbPromise = "resolved" /\ clearPc = "idle") =>
        /\ Cardinality(DOMAIN settings) = 1
        /\ SettingsId \in DOMAIN settings

\* C12: no two records of the categories store have the same name, and an
\* addCategory of a name the store holds is rejected and leaves the store as
\* it was.
C12_CategoryNamesUnique ==
    /\ [](~HasDuplicates(NamesInKeyOrder(categories)))
    /\ [][ (Step("addCategory") /\ lastOp'.arg \in Range(categories))
            => (lastOp'.status = "rejected" /\ categories' = categories) ]_vars

C12_Witness ==
    /\ lastOp.op = "addCategory"
    /\ lastOp.status = "rejected"
    /\ lastOp.arg \in UserNames
    /\ lastOp.arg \in Range(categories)

\* C13: once the database is open and no clearAllData is under way, every
\* default name is the name of a category.
C13_DefaultsAlwaysPresent ==
    (dbPromise = "resolved" /\ clearPc = "idle") => DefaultNames \subseteq Range(categories)

\* C17: a read made while clearAllData is under way never returns an empty
\* list of categories, nor finds the settings record missing.
C17_ReaderNeverSeesCleared ==
    [][ /\ (clearPc = "cleared" /\ exportPc = 1 /\ exportPc' = 2)
            => doc'.categories # <<>>
        /\ (clearPc = "cleared" /\ exportPc = 3 /\ exportPc' = 0)
            => "settings" \in doc'.keys ]_vars

\* C18: when one importData, and nothing else, has settled between the reads
\* of exportData, the document returned is the export of the stores as they
\* were before the import or the export of the stores as they are after it.
C18_ReaderNeverSeesHalfImport ==
    [][ (exportPc = 3 /\ exportPc' = 0 /\ during.ops = <<"importData">>)
        => doc' \in { Exported(during.base),
                      Exported(Snapshot(expenses, categories, reminders, settings)) } ]_vars

\* C19: an importData or a clearing transaction that the engine fails is
\* rejected and leaves the four stores as they were, and a clearAllData whose
\* re-seeding fails does not leave the categories and the settings empty.
C19_RejectedStepLeavesPriorState ==
    [][ /\ (Step("importData") /\ lastOp'.arg.fail)
            => (/\ lastOp'.status = "rejected"
                /\ UNCHANGED <<expenses, categories, reminders, settings>>)
        /\ (Step("clearAllData") /\ lastOp'.status = "rejected")
            => UNCHANGED <<expenses, categories, reminders, settings>>
        /\ (clearPc = "cleared" /\ clearPc' = "idle" /\ lastOp'.status = "rejected")
            => ~(categories' = Empty /\ settings' = Empty) ]_vars

----------------------------------------------------------------------------
(* The service worker: checkReminders *)

\* onupgradeneeded of the worker: only its own store is created
UpgradeWorker(names) == names \cup WorkerStores

\* `const reminderId = \`reminder-${reminder.id}\``: the key of the sent-mark
ReminderTag(item) == item.id

\* isDueToday and isDueTomorrow: the calendar day of the due date against now
IsDueToday(item, now) == item.rest.date = now
IsDueTomorrow(item, now) == item.rest.date = now + 1
\* the test of line 156 with catch-up: everything due up to tomorrow
IsDueOrOverdue(item, now) == item.rest.date <= now + 1
IsDue(item, now) == IsDueToday(item, now) \/ IsDueTomorrow(item, now)

\* `const dueText = isDueToday ? 'is due today' : 'is due tomorrow'`
MilestoneOf(item, now) == IF IsDueToday(item, now) THEN "today" ELSE "1day"

\* the for loop up to its next await: the first reminder from index from on
\* that is due today or tomorrow (0 when the loop ends)
NextDue(snap, from, now) ==
    LET due == {i \in from .. Len(snap) : IsDue(snap[i], now)}
    IN IF due = {} THEN 0 ELSE CHOOSE i \in due : \A j \in due : i <= j

\* the execution goes on with the reminder at index i, or returns
Continue(c, i) ==
    IF i = 0 THEN [cycle EXCEPT ![c] = IdleCycle]
    ELSE [cycle EXCEPT ![c].pc = "has", ![c].idx = i]

\* the never-sent answer
NeverSent(sent, tag) == FALSE

\* hasNotificationBeenSent: `resolve(!!request.result)` of store.get(reminderId)
hasNotificationBeenSent(sent, tag) == tag \in sent

Current(c) == cycle[c].snap[cycle[c].idx]

Running == {c \in Cycles : cycle[c].pc # "idle"}

\* the activate or periodicsync listener calls checkReminders() while no
\* execution is in flight
checkReminders ==
    /\ Running = {}
    /\ cycleCount < MaxCycles
    /\ cycle' = [cycle EXCEPT ![1].pc = "get"]
    /\ cycleCount' = cycleCount + 1
    /\ UNCHANGED <<dbVars, uiVars, viewVars, timerVars, lastFailure, today, notified,
                   lastCheck, overlapped, terminated>>

\* a listener calls checkReminders() while an execution is in flight;
\* executions are interchangeable, so the new one takes the lowest free place
checkRemindersOverlapping ==
    \E c \in Cycles \ Running :
        /\ Running # {}
        /\ \A o \in Cycles : o < c => o \in Running
        /\ cycleCount < MaxCycles
        /\ cycle' = [cycle EXCEPT ![c].pc = "get"]
        /\ cycleCount' = cycleCount + 1
        /\ overlapped' = TRUE
        /\ UNCHANGED <<dbVars, uiVars, viewVars, timerVars, lastFailure, today, notified,
                       lastCheck, terminated>>

\* `const reminders = await getReminders()`: the worker opens the database
\* (creating it when it is new) and reads the reminders store; a missing
\* store throws into the catch of checkReminders
getReminders ==
    \E c \in Cycles :
        /\ cycle[c].pc = "get"
        /\ objectStoreNames' = IF objectStoreNames = {} THEN UpgradeWorker(objectStoreNames)
                               ELSE objectStoreNames
        /\ IF "reminders" \in objectStoreNames'
           THEN LET snap == ExportItems(reminders)
                    first == NextDue(snap, 1, today)
                IN cycle' = IF first = 0 THEN [cycle EXCEPT ![c] = IdleCycle]
                            ELSE [cycle EXCEPT ![c] = [pc |-> "has", snap |-> snap,
                                                        idx |-> first, now |-> today]]
           ELSE cycle' = [cycle EXCEPT ![c] = IdleCycle]
        /\ UNCHANGED <<expenses, expKey, categories, catKey, reminders, remKey, settings,
                       sentNotifications, uiVars, viewVars, timerVars, lastFailure, today,
                       cycleCount, notified, lastCheck, overlapped, terminated>>

\* `const alreadySent = await hasNotificationBeenSent(reminderId)`
checkSent ==
    \E c \in Cycles :
        /\ cycle[c].pc = "has"
        /\ IF "sentNotifications" \notin objectStoreNames
           THEN /\ cycle' = [cycle EXCEPT ![c] = IdleCycle]
                /\ UNCHANGED lastCheck
           ELSE LET alreadySent ==
                        hasNotificationBeenSent(sentNotifications, ReminderTag(Current(c)))
                IN /\ cycle' = IF alreadySent
                               THEN Continue(c, NextDue(cycle[c].snap, cycle[c].idx + 1,
                                                        cycle[c].now))
                               ELSE [cycle EXCEPT ![c].pc = "show"]
                   /\ lastCheck' = [id |-> Current(c).id,
                                    milestone |-> MilestoneOf(Current(c), cycle[c].now),
                                    sent |-> alreadySent,
                                    restarted |-> ReminderTag(Current(c)) \in terminated.marks]
        /\ UNCHANGED <<dbVars, uiVars, viewVars, timerVars, lastFailure, today, cycleCount,
                       notified, overlapped, terminated>>

\* `await self.registration.showNotification(...)`: the notification is shown,
\* or the call rejects (no permission) into the catch of checkReminders
showNotification ==
    \E c \in Cycles, shown \in BOOLEAN :
        /\ cycle[c].pc = "show"
        /\ LET t == <<Current(c).id, MilestoneOf(Current(c), cycle[c].now)>> IN
           IF shown
           THEN /\ notified[t] < MaxShown
                /\ notified' = [notified EXCEPT ![t] = @ + 1]
                /\ cycle' = [cycle EXCEPT ![c].pc = "mark"]
                /\ UNCHANGED lastFailure
           ELSE /\ cycle' = [cycle EXCEPT ![c] = IdleCycle]
                /\ lastFailure' = [id |-> t[1], milestone |-> t[2], n |-> lastFailure.n + 1]
                /\ UNCHANGED notified
        /\ UNCHANGED <<dbVars, uiVars, viewVars, timerVars, today, cycleCount, lastCheck,
                       overlapped, terminated>>

\* `await markNotificationAsSent(reminderId)`: store.put({id: reminderId, sentAt})
markNotificationAsSent ==
    \E c \in Cycles :
        /\ cycle[c].pc = "mark"
        /\ sentNotifications' = sentNotifications \cup {ReminderTag(Current(c))}
        /\ cycle' = Continue(c, NextDue(cycle[c].snap, cycle[c].idx + 1, cycle[c].now))
        /\ UNCHANGED <<objectStoreNames, expenses, expKey, categories, catKey, reminders,
                       remKey, settings, uiVars, viewVars, timerVars, lastFailure, today,
                       cycleCount, notified, lastCheck, overlapped, terminated>>

\* the browser stops the worker: every execution in flight and every pending
\* timer is lost
terminate ==
    /\ terminated' = [how |-> IF Running # {} \/ terminated.how = "midcycle"
                               THEN "midcycle" ELSE "idle",
                      marks |-> sentNotifications]
    /\ cycle' = [c \in Cycles |-> IdleCycle]
    /\ timers' = {}
    /\ <<cycle', terminated', timers'>> # <<cycle, terminated, timers>>
    /\ UNCHANGED <<dbVars, uiVars, viewVars, timerShown, lastFailure, today, cycleCount,
                   notified, lastCheck, overlapped>>

\* midnight passes
nextDay ==
    /\ today < MaxDay
    /\ today' = today + 1
    /\ UNCHANGED <<dbVars, uiVars, viewVars, timerVars, lastFailure, cycle, cycleCount,
                   notified, lastCheck, overlapped, terminated>>

----------------------------------------------------------------------------
(* Specification of the worker beside db.ts, check cycles running one      *)
(* after another.  The database is new, and is then created by whichever   *)
(* context opens it first, or it exists already with the stores of both    *)
(* contexts, which is what checkReminders needs to get as far as a         *)
(* notification.                                                           *)

InitWorkerSide ==
    /\ objectStoreNames \in {{}, UIStores \cup WorkerStores}
    /\ InitDatabase /\ InitUI /\ InitView /\ InitWorker

NextWorker ==
    \/ getDB
    \/ OpenOnSuccess
    \/ populateInitialData
    \/ addReminder
    \/ deleteReminder
    \/ checkReminders
    \/ getReminders
    \/ checkSent
    \/ showNotification
    \/ markNotificationAsSent
    \/ terminate
    \/ nextDay

SpecWorker == InitWorkerSide /\ [][NextWorker]_vars

----------------------------------------------------------------------------
(* Claims about the worker *)

Sequential == terminated.how # "midcycle" /\ ~overlapped

----------------------------------------------------------------------------
(* Specification of the dashboard: the hook has loaded some expenses, kept  *)
(* latest first, and some settings, and the page renders them on some day.  *)

InitSummaries ==
    /\ objectStoreNames = {}
    /\ InitDatabase /\ InitUI /\ InitWorker
    /\ \E list \in SummaryLists, sett \in SummarySettings :
           hook = [InitialHook EXCEPT !.expenses = SortedByDateDesc(list),
                                      !.settings = sett,
                                      !.loading = FALSE]
    /\ fetch = [pc |-> "idle", failed |-> {}]
    /\ rendered = NoRender
    /\ scan = NoScan

NextSummaries == render

SpecSummaries == InitSummaries /\ [][NextSummaries]_vars

----------------------------------------------------------------------------
(* Specification of the hook beside db.ts: the page mounts on a database    *)
(* that does not exist yet, loads, and reloads after the user's writes.     *)

NextHook ==
    \/ getDB
    \/ OpenOnSuccess
    \/ populateInitialData
    \/ addExpense
    \/ addCategory
    \/ addReminder
    \/ updateSettings
    \/ fetchData
    \/ fetchSettle

SpecHook == InitStore /\ [][NextHook]_vars

----------------------------------------------------------------------------
(* Claims about the dashboard *)

Windows == {"today", "week", "month", "year"}

\* the day d lies in the calendar window w that holds the day now
InWindow(w, d, now) ==
    CASE w = "today" -> d = now
      [] w = "week" -> d \div 7 = now \div 7
      [] w = "month" -> d \div 30 = now \div 30
      [] w = "year" -> d \div 360 = now \div 360

\* for each expense of the list, its amount when it lies in the window, else 0
Contribution(exps, w, now) ==
    [i \in DOMAIN exps |->
        IF InWindow(w, exps[i].rest.date, now) THEN exps[i].rest.amount ELSE 0]

RECURSIVE SumOf(_)
SumOf(s) == IF Len(s) = 0 THEN 0 ELSE s[Len(s)] + SumOf(SubSeq(s, 1, Len(s) - 1))

Rendered == rendered # NoRender

\* C14: budgetProgress is 0 when there is no settings record or the monthly
\* budget is 0; it is month / monthlyBudget * 100 when that is at most 100,
\* exactly 100 when the month's spend exceeds the budget, and so always
\* between 0 and 100.
C14_BudgetProgressCapped ==
    Rendered =>
        LET month == rendered.summaries.month
            budget == hook.settings.monthlyBudget
            p == rendered.budgetProgress
        IN /\ p.den > 0
           /\ (~hook.settings.present \/ budget = 0) => p.num = 0
           /\ (hook.settings.present /\ budget > 0 /\ month <= budget)
                  => p.num * budget = month * 100 * p.den
           /\ (hook.settings.present /\ budget > 0 /\ month > budget)
                  => p.num = 100 * p.den
           /\ 0 <= p.num /\ p.num <= 100 * p.den

C14_Witness ==
    /\ Rendered
    /\ rendered.summaries.month = 1500
    /\ hook.settings = [present |-> TRUE, monthlyBudget |-> 1000]
    /\ rendered.budgetProgress = Rat(100, 1)

\* C15: each summary is the sum of the amounts of exactly the expenses dated
\* in the current day, week, month and year of the rendering day: an expense
\* outside the window adds nothing, one inside it adds its amount once.
C15_SummariesMatchWindows ==
    Rendered =>
        \A w \in Windows :
            rendered.summaries[w] = SumOf(Contribution(hook.expenses, w, rendered.now))

C15_Witness ==
    /\ rendered.now = 32
    /\ \E i, j \in DOMAIN hook.expenses :
           /\ hook.expenses[i].rest.date = 45
           /\ hook.expenses[j].rest.date = 29
    /\ rendered.summaries = [today |-> 0, week |-> 7, month |-> 500, year |-> 507]

----------------------------------------------------------------------------
(* Claims about the hook *)

\* this step is the end of a fetchData
Loaded == fetch.pc = "running" /\ fetch'.pc = "idle"

\* C16: when any of the four reads of a fetchData fails, the hook reports an
\* error and keeps the expenses, categories, reminders and settings it held,
\* none of them replaced; whether the reads fail or not, loading ends false.
C16_LoadAllOrNothing ==
    [][ Loaded =>
          /\ ~hook'.loading
          /\ fetch'.failed # {} =>
                 /\ hook'.error # "null"
                 /\ hook'.expenses = hook.expenses
                 /\ hook'.categories = hook.categories
                 /\ hook'.reminders = hook.reminders
                 /\ hook'.settings = hook.settings ]_vars

C16_Witness ==
    /\ fetch.pc = "idle"
    /\ fetch.failed = {"settings"}
    /\ ~hook.loading
    /\ hook.error # "null"
    /\ hook.categories # <<>>
    /\ hook.categories # ExportItems(categories)
    /\ hook.settings.present

----------------------------------------------------------------------------
(* Specification of the worker with check cycles that overlap: a listener   *)
(* calls checkReminders while the execution another listener started is     *)
(* still awaiting.                                                          *)

NextOverlap ==
    \/ NextWorker
    \/ checkRemindersOverlapping

SpecOverlap == InitWorkerSide /\ [][NextOverlap]_vars

----------------------------------------------------------------------------
(* Claims about the database the two contexts share *)

\* C27: once the database has been created, by db.ts or by the worker, it
\* holds every store either context uses, and no open is rejected for a
\* missing store.
C27_EveryStoreExists ==
    objectStoreNames # {} =>
        /\ UIStores \cup WorkerStores \subseteq objectStoreNames
        /\ dbPromise # "rejected"

\* this step is a showNotification of the execution c that rejects
ShowRejects(c) == cycle[c].pc = "show" /\ cycle'[c].pc = "idle" /\ lastFailure' # lastFailure

Showing(c) == <<Current(c).id, MilestoneOf(Current(c), cycle[c].now)>>

----------------------------------------------------------------------------
(* The settings page (app/settings/page.tsx): its category handlers over    *)
(* db.ts.                                                                   *)

\* `const defaultCategories = [...]` of the page
settingsPageDefaultCategories ==
    <<"Groceries", "Dining", "Travel", "Utilities", "Shopping", "Food", "Medicine", "Other">>

\* the names a user types into the category form
TypedNames == UserNames \cup {"Food"}

\* the test `defaultCategories.includes(name)` of handleDeleteCategory
RefusedByPage(name) == name \in Range(settingsPageDefaultCategories)

\* handleAddCategory: `await addCategory({ name: values.name })`
handleAddCategory ==
    \E name \in TypedNames :
        /\ Ready
        /\ catKey < MaxCatKey
        /\ IF NameTaken(categories, name)
           THEN /\ Settle(Op("handleAddCategory", "rejected", name))
                /\ UNCHANGED <<categories, catKey>>
           ELSE /\ categories' = AddAll(categories, catKey, <<name>>)
                /\ catKey' = catKey + 1
                /\ Settle(Op("handleAddCategory", "ok", name))
        /\ UNCHANGED <<expenses, expKey, reminders, remKey, settings>>

\* handleDeleteCategory(id, name) on a category of the list: the page's own
\* test first, then deleteCategory(id)
handleDeleteCategory ==
    \E id \in DOMAIN categories :
        /\ Ready
        /\ IF RefusedByPage(categories[id])
           THEN /\ Settle(Op("handleDeleteCategory", "refused", Found(categories, id)))
                /\ UNCHANGED categories
           ELSE IF IsProtected(categories, id)
           THEN /\ Settle(Op("handleDeleteCategory", "rejected", Found(categories, id)))
                /\ UNCHANGED categories
           ELSE /\ categories' = DeleteKey(categories, id)
                /\ Settle(Op("handleDeleteCategory", "ok", Found(categories, id)))
        /\ UNCHANGED <<expenses, expKey, catKey, reminders, remKey, settings>>

NextSettingsPage ==
    \/ getDB
    \/ OpenOnSuccess
    \/ populateInitialData
    \/ handleAddCategory
    \/ handleDeleteCategory

SpecSettingsPage == InitStore /\ [][NextSettingsPage]_vars

\* C28: the page refuses to delete a category exactly when deleteCategory of
\* db.ts would reject it, so every category the store would delete can be
\* deleted from the page.
C28_GuardsAgree ==
    [][ Step("handleDeleteCategory")
        => (lastOp'.status = "refused" <=> IsProtected(categories, lastOp'.arg.id)) ]_vars

----------------------------------------------------------------------------
(* Claims about the categories of an import *)

\* the names of the supplied categories that are not default names
SuppliedUserNames(data) ==
    SelectSeq(Stripped(data.categories), LAMBDA n : n \notin DefaultNames)

\* this step is an importData of a document whose category list holds a
\* name that is not a default name twice, with no failure of the engine
ImportsDuplicate ==
    /\ Step("importData")
    /\ ~lastOp'.arg.fail
    /\ "categories" \in lastOp'.arg.data.keys
    /\ HasDuplicates(SuppliedUserNames(lastOp'.arg.data))

\* C25 as claimed: an import whose category list holds the same non-default
\* name twice commits, and the categories then hold that name twice.
C25_DuplicateUserNameCommitted ==
    [][ ImportsDuplicate
        => (lastOp'.status = "ok" /\ HasDuplicates(NamesInKeyOrder(categories'))) ]_vars

\* C25 amended: an import drops the supplied categories that bear a default
\* name and adds the others after the default names; when the supplied list
\* holds the same non-default name twice the import is rejected and no
\* collection changes.
C25_DuplicateUserNameRejected ==
    /\ [][ ImportsDuplicate
           => (/\ lastOp'.status = "rejected"
               /\ UNCHANGED <<expenses, categories, reminders, settings>>) ]_vars
    /\ [][ (/\ Step("importData")
            /\ lastOp'.status = "ok"
            /\ "categories" \in lastOp'.arg.data.keys)
           => NamesInKeyOrder(categories')
                  = defaultCategories \o SuppliedUserNames(lastOp'.arg.data) ]_vars

C25_Witness ==
    /\ lastOp.op = "importData"
    /\ lastOp.status = "rejected"
    /\ ~lastOp.arg.fail
    /\ Stripped(lastOp.arg.data.categories) = <<"Gym", "Gym">>
    /\ "Gym" \notin Range(categories)
    /\ DefaultNames \subseteq Range(categories)

----------------------------------------------------------------------------
(* Specification of the check cycles beside the operations of db.ts that  *)
(* add, delete, replace or empty the reminders, on a database that has the  *)
(* stores of both contexts, within one day and one life of the worker.      *)

InitMarks ==
    /\ objectStoreNames = UIStores \cup WorkerStores
    /\ InitDatabase /\ InitUI /\ InitView /\ InitWorker

NextMarks ==
    \/ getDB
    \/ OpenOnSuccess
    \/ populateInitialData
    \/ addReminder
    \/ deleteReminder
    \/ importData
    \/ clearAllData
    \/ clearRepopulate
    \/ checkReminders
    \/ getReminders
    \/ checkSent
    \/ showNotification
    \/ markNotificationAsSent

SpecMarks == InitMarks /\ [][NextMarks]_vars

\* C29: a reminder that is created, by addReminder or by an import, never
\* gets an id for which a sent-mark has been written, although importData
\* and clearAllData leave the sent-marks in place.
C29_MarkedIdNeverReassigned ==
    [][ /\ \A id \in DOMAIN reminders' \ DOMAIN reminders : id \notin sentNotifications
        /\ sentNotifications \subseteq sentNotifications' ]_vars

C29_Witness ==
    /\ lastOp.op = "importData"
    /\ lastOp.status = "ok"
    /\ sentNotifications = {1}
    /\ DOMAIN reminders = {2}

----------------------------------------------------------------------------
(* The reminders page (app/reminders/page.tsx) and the message listener of  *)
(* the worker (public/sw.js).  The date picked is the midnight that starts  *)
(* the due day; a timer is due from the day of its `schedule.at` on.        *)

\* the days a user picks in the calendar
PickedDays == 0 .. MaxDay + 2

Timer(id, milestone, at) == [id |-> id, milestone |-> milestone, at |-> at]

\* sw.js: `if (timeUntilNotification > 0) setTimeout(...)`, for a time that
\* is the midnight starting the day at
Scheduled(at, now) == at > now

\* scheduleReminderNotifications(title, date): the three SCHEDULE_REMINDER
\* messages and the timers the listener sets for them.  "added" is the
\* notification one second from now; the message for the day before is only
\* posted `if (oneDayBefore > new Date())`.
ScheduledTimers(id, date, now) ==
    { Timer(id, "added", now) }
    \cup (IF date - 1 > now /\ Scheduled(date - 1, now)
          THEN {Timer(id, "1day", date - 1)} ELSE {})
    \cup (IF Scheduled(date, now) THEN {Timer(id, "today", date)} ELSE {})

\* handleAddReminder: addReminder, then the scheduling when the page holds
\* the permission 'granted'
handleAddReminder ==
    \E d \in PickedDays, granted \in BOOLEAN :
        /\ Ready
        /\ remKey < MaxRemKey
        /\ reminders' = AddAll(reminders, remKey, <<Bill(d)>>)
        /\ remKey' = remKey + 1
        /\ timers' = IF granted THEN timers \cup ScheduledTimers(remKey + 1, d, today)
                     ELSE timers
        /\ lastOp' = Op("handleAddReminder", "ok", remKey + 1)
        /\ opCount' = opCount + 1
        /\ UNCHANGED <<objectStoreNames, expenses, expKey, categories, catKey, settings,
                       sentNotifications, dbPromise, openCount, earlyCalls, clearPc,
                       clearDisturbed, exportPc, doc, during, viewVars, today, cycle,
                       cycleCount, notified, lastCheck, overlapped, terminated,
                       lastFailure, timerShown>>

\* the callback of setTimeout: `self.registration.showNotification(title, options)`
timerFires ==
    \E t \in timers :
        /\ t.at <= today
        /\ timers' = timers \ {t}
        /\ timerShown' = timerShown \cup {<<t.id, t.milestone>>}
        /\ UNCHANGED <<dbVars, uiVars, viewVars, today, cycle, cycleCount, notified,
                       lastCheck, overlapped, terminated, lastFailure>>

NextTimers ==
    \/ getDB
    \/ OpenOnSuccess
    \/ populateInitialData
    \/ handleAddReminder
    \/ deleteReminder
    \/ checkReminders
    \/ getReminders
    \/ checkSent
    \/ showNotification
    \/ markNotificationAsSent
    \/ timerFires
    \/ terminate
    \/ nextDay

SpecTimers == InitMarks /\ [][NextTimers]_vars

C23_DeletedReminderNeverNotified ==
    [][ \A t \in timerShown' \ timerShown :
            t[2] \in Milestones => t[1] \in DOMAIN reminders ]_vars

EmittedBy(c, t) ==
    /\ cycle[c].pc = "show"
    /\ Current(c).id = t[1]
    /\ notified'[t] > notified[t]

MilestoneDay(date, milestone) == IF milestone = "today" THEN date ELSE date - 1

----------------------------------------------------------------------------
(* The scanner page (ExpenseScanner.handleScanImage).  Names differ in the  *)
(* case of their letters, and toLowerCase maps a name to its lower-case     *)
(* spelling.                                                                *)

MaxScanned == 2

\* `(exp as any).category` when the scan returned none
NoCategory == ""

\* the names of the model that have upper-case letters, with their lower case
Lowered ==
    { <<"Groceries", "groceries">>, <<"GROCERIES", "groceries">>,
      <<"Dining", "dining">>, <<"Travel", "travel">>, <<"Utilities", "utilities">>,
      <<"Shopping", "shopping">>, <<"Other", "other">>, <<"Gym", "gym">>,
      <<"Pets", "pets">>, <<"Toys", "toys">> }

\* String.prototype.toLowerCase
toLowerCase(n) ==
    IF \E p \in Lowered : p[1] = n
    THEN (CHOOSE p \in Lowered : p[1] = n)[2]
    ELSE n

\* the categories a user added; the unique index tells "Gym" from "gym"
ScannerExtraLists ==
    {<<>>, <<"Gym">>, <<"gym">>, <<"Gym", "gym">>, <<"Pets">>, <<"Gym", "Pets">>}

\* the categories the AI scan returns
ScannedNames ==
    {NoCategory, "Groceries", "groceries", "GROCERIES", "Gym", "gym", "Other", "other",
     "Toys"}

ScanResults == UNION {[1 .. n -> ScannedNames] : n \in 0 .. MaxScanned}

\* `categories.some(c => c.name.toLowerCase() === exp.category?.toLowerCase())`
\* and `exp.category && categoryExists ? exp.category : (otherCategory?.name || 'Other')`
ScannedCategory(names, category) ==
    LET categoryExists ==
            /\ category # NoCategory
            /\ \E i \in DOMAIN names : toLowerCase(names[i]) = toLowerCase(category)
    IN IF category # NoCategory /\ categoryExists THEN category ELSE "Other"

\* handleScanImage: the editable expenses built from result.expenses with the
\* categories of the useExpenses hook
handleScanImage ==
    \E result \in ScanResults :
        /\ scan' = [scanned |-> result,
                    category |-> [i \in DOMAIN result |->
                                     ScannedCategory(Stripped(hook.categories), result[i])]]
        /\ UNCHANGED <<dbVars, uiVars, workerVars, hook, fetch, rendered>>

\* the page after the hook has loaded the categories of the store
InitScan ==
    /\ objectStoreNames = UIStores
    /\ expenses = Empty /\ expKey = 0
    /\ reminders = Empty /\ remKey = 0
    /\ settings = PopulatedSettings(Empty)
    /\ sentNotifications = {}
    /\ \E extra \in ScannerExtraLists :
           /\ categories = AddAll(Empty, 0, defaultCategories \o extra)
           /\ catKey = Len(defaultCategories \o extra)
    /\ InitUI /\ InitWorker
    /\ hook = [InitialHook EXCEPT !.categories = ExportItems(categories),
                                  !.loading = FALSE]
    /\ fetch = [pc |-> "idle", failed |-> {}]
    /\ rendered = NoRender
    /\ scan = NoScan

NextScan == handleScanImage

SpecScan == InitScan /\ [][NextScan]_vars

\* C26: every expense built from the scan has a category that is the name of
\* a category in the store or is "Other": a scanned category that differs
\* from a stored name only in the case of its letters yields no category
\* string absent from the store.
C26_ScannedCategoryInStore ==
    \A i \in DOMAIN scan.category :
        scan.category[i] \in Range(categories) \cup {"Other"}

====
